---- MODULE Spec2Model ----
(***************************************************************************)
(* A model of the two stages of InSARPlus' Sentinel-1 retrieval:           *)
(*   step_1/sentinel_search_asf/sentinel_search_asf.py     (search stage)  *)
(*   step_2/sentinel_download_asf/sentinel_download_asf.py (download stage)*)
(* Dates are day numbers, an acquisition instant is a day and a time of    *)
(* day, a geometry is a set of unit cells (its area) plus a set of         *)
(* zero-area pieces, and a coverage is the exact fraction <<num, den>>.    *)
(***************************************************************************)
EXTENDS Integers, Sequences, FiniteSets, TLC

\* ------------------------------------------------------------------ bounds
MaxProducts == 3        \* products held by the archive in one run
MaxFailures == 3        \* failed archive queries in one run of the search
MaxImages   == 3        \* images handed to plot_temporal on its own
MaxScenes   == 2        \* scenes the download stage's search returns
MaxBatch    == 2        \* batch_size of the download stage
MaxThreads  == 2        \* num_threads of the download stage
MaxFaults   == 5        \* failed requests in one run of the download stage

\* ------------------------------------------------------- program constants
date_step          == 180
search_max_retries == 3
GapDays            == 12
slc_search_max_retries == 3
orbit_max_retries      == 3
slc_max_retries        == 5

platforms        == <<"Sentinel-1A", "Sentinel-1B">>
orbit_directions == <<"ASCENDING", "DESCENDING">>
polarizations    == <<"VV", "VH", "HH", "HV", "VV+VH", "HH+HV">>

\* ---------------------------------------------------------------- geometry
Cells == {"c1", "c2", "c3", "c4"}

Geom(cells, lines, valid) == [cells |-> cells, lines |-> lines, valid |-> valid]

RegionBox  == Geom(Cells, {"e1"}, TRUE)     \* a proper bounding box
RegionLine == Geom({}, {"e1"}, TRUE)        \* a degenerate box: zero area

FootFull    == Geom(Cells, {"e1"}, TRUE)
FootHalf    == Geom({"c1", "c2"}, {}, TRUE)
FootQuarter == Geom({"c1"}, {}, TRUE)
FootAway    == Geom({}, {}, TRUE)
FootBad     == Geom(Cells, {"e1"}, FALSE)   \* shapely raises on it

intersection(g, h) == Geom(g.cells \cap h.cells, g.lines \cap h.lines, TRUE)
is_empty(g) == g.cells = {} /\ g.lines = {}
area(g)     == Cardinality(g.cells)

ZeroCoverage == <<0, 1>>

\* a < b for a coverage a = <<num, den>> and a percentage b
CoverageLess(a, b) == a[1] < b * a[2]

\* a failed computation taken for full coverage
calculate_coverage_percent_full_on_error(region_geom_, product_geom) ==
    IF ~product_geom.valid THEN <<100, 1>>
    ELSE LET inter == intersection(region_geom_, product_geom) IN
         IF is_empty(inter) THEN ZeroCoverage
         ELSE IF area(region_geom_) = 0 THEN ZeroCoverage
         ELSE <<area(inter) * 100, area(region_geom_)>>

calculate_coverage_percent(region_geom_, product_geom) ==
    IF ~product_geom.valid THEN ZeroCoverage
    ELSE LET inter == intersection(region_geom_, product_geom) IN
         IF is_empty(inter) THEN ZeroCoverage
         ELSE IF area(region_geom_) = 0 THEN ZeroCoverage
         ELSE <<area(inter) * 100, area(region_geom_)>>

\* ------------------------------------------------------------- the archive
Feature(id, meta, plat, pol, orb, day, tod, path, frame, geom) ==
    [fileID |-> id, isMetadata |-> meta, platform |-> plat, polarization |-> pol,
     flightDirection |-> orb, startTime |-> [day |-> day, tod |-> tod],
     pathNumber |-> path, frameNumber |-> frame, geometry |-> geom]

Features == <<
    Feature("A0",  FALSE, "Sentinel-1A", "VV",    "ASCENDING",  0,   0, 1, 1, FootFull),
    Feature("A12", FALSE, "Sentinel-1A", "VV",    "ASCENDING",  12,  1, 1, 1, FootFull),
    Feature("A25", FALSE, "Sentinel-1A", "VV",    "ASCENDING",  25,  1, 1, 1, FootHalf),
    Feature("B12", FALSE, "Sentinel-1B", "VV",    "ASCENDING",  12,  0, 1, 1, FootFull),
    Feature("F24", FALSE, "Sentinel-1A", "VV",    "ASCENDING",  24,  0, 1, 2, FootFull),
    Feature("D29", FALSE, "Sentinel-1A", "VV+VH", "DESCENDING", 29,  1, 2, 1, FootFull),
    Feature("Q6",  FALSE, "Sentinel-1A", "VV",    "ASCENDING",  6,   1, 1, 1, FootQuarter),
    Feature("M0",  TRUE,  "Sentinel-1A", "VV",    "ASCENDING",  0,   0, 1, 1, FootFull),
    Feature("X3",  FALSE, "Sentinel-1A", "VV",    "ASCENDING",  3,   1, 1, 1, FootBad),
    Feature("W30", FALSE, "Sentinel-1B", "VV",    "ASCENDING",  30,  0, 1, 1, FootAway) >>

\* start <= startTime <= end, start and end being midnights
InRange(t, start, end) == t.day >= start /\ (t.day < end \/ (t.day = end /\ t.tod = 0))

Matches(f, platform, orbit_direction, pol, start, end) ==
    /\ f.platform = platform
    /\ f.flightDirection = orbit_direction
    /\ f.polarization = pol
    /\ InRange(f.startTime, start, end)

RECURSIVE SelectIdx(_, _, _, _, _, _, _)
SelectIdx(i, cat, platform, orbit_direction, pol, start, end) ==
    IF i > Len(Features) THEN << >>
    ELSE (IF i \in cat /\ Matches(Features[i], platform, orbit_direction, pol, start, end)
          THEN <<Features[i]>> ELSE << >>)
         \o SelectIdx(i + 1, cat, platform, orbit_direction, pol, start, end)

geo_search(cat, platform, orbit_direction, pol, start, end) ==
    SelectIdx(1, cat, platform, orbit_direction, pol, start, end)

\* ------------------------------------------------------------ conversions
Digit(d) == <<"0", "1", "2", "3", "4", "5", "6", "7", "8", "9">>[d + 1]

RECURSIVE str(_)
str(n) == IF n < 10 THEN <<Digit(n)>> ELSE str(n \div 10) \o <<Digit(n % 10)>>

\* strptime(startTime).strftime('%Y-%m-%d'): the day, the time of day dropped
DateOf(startTime) == startTime.day

\* --------------------------------------------------------------- variables
VARIABLES
    config,                   \* min_images, coverage_percent, start_date, end_date
    region_geom,              \* the region of interest
    catalog,                  \* the archive's content: indices into Features
    pc,                       \* where search_images_asf is
    current_start, current_end,
    pi, oi, li,               \* positions in polarizations, orbit_directions, platforms
    retries,
    failures,                 \* failed queries so far in this run
    all_products,
    windows,                  \* the <<start, end>> windows queried so far
    grouped, grouped_simple,
    filtered_grouped, filtered_grouped_simple,
    plots,                    \* gap markers drawn per group by plot_temporal
    results_header,           \* the N of "Groups >N images only" in the results file
    search_results_file,      \* the groups listed in search_results_asf.txt
    image_info, gap_dates, plot_pc,    \* plot_temporal on its own
    dconf,                    \* the download stage's config and the archive's answer
    dpc,                      \* where the download stage's main is
    exit_status,              \* -1 while running, then the status main exits with
    success_logged,           \* "All downloads completed successfully!" was logged
    requested,                \* the remote resources requested so far
    faults,                   \* failed requests so far
    dem_file,                 \* DEM_FILE on disk
    tile_idx, dem_tiles, tile_requests, tile_failed, dem_success,
    search_attempt, products,
    o_prod, o_type, o_attempt, orbit_paths, orbit_gave_up,
    batch_start, pending, running, slc_attempts, slc_result, all_paths

svars == <<config, region_geom, catalog, pc, current_start, current_end, pi, oi, li,
           retries, failures, all_products, windows, grouped, grouped_simple,
           filtered_grouped, filtered_grouped_simple, plots, results_header,
           search_results_file>>
pvars == <<image_info, gap_dates, plot_pc>>
mvars == <<dconf, dpc, exit_status, success_logged, requested, faults>>
demvars == <<dem_file, tile_idx, dem_tiles, tile_requests, tile_failed, dem_success>>
sevars  == <<search_attempt, products>>
ovars   == <<o_prod, o_type, o_attempt, orbit_paths, orbit_gave_up>>
slcvars == <<batch_start, pending, running, slc_attempts, slc_result, all_paths>>
dvars == <<mvars, demvars, sevars, ovars, slcvars>>
vars  == <<svars, pvars, dvars>>

\* ----------------------------------------------------------- plot_temporal
RECURSIVE InsertByDate(_, _)
InsertByDate(sorted_images, img) ==
    IF sorted_images = << >> THEN <<img>>
    ELSE LET last == sorted_images[Len(sorted_images)] IN
         IF last.date <= img.date THEN Append(sorted_images, img)
         ELSE Append(InsertByDate(SubSeq(sorted_images, 1, Len(sorted_images) - 1), img), last)

RECURSIVE SortedByDate(_)
SortedByDate(images) ==
    IF images = << >> THEN << >>
    ELSE InsertByDate(SortedByDate(SubSeq(images, 1, Len(images) - 1)), images[Len(images)])

\* twelve days taken for a gap
IsGap_at_least(delta_days) == delta_days >= GapDays

IsGap(delta_days) == delta_days > GapDays

\* mid_date = dates[i] + delta_days / 2, kept in half days
RECURSIVE GapsFrom(_, _)
GapsFrom(dates, i) ==
    IF i > Len(dates) - 1 THEN << >>
    ELSE LET delta_days == dates[i + 1] - dates[i] IN
         (IF IsGap(delta_days) THEN <<2 * dates[i] + delta_days>> ELSE << >>)
         \o GapsFrom(dates, i + 1)

plot_temporal(images) ==
    IF images = << >> THEN << >>
    ELSE LET sorted_images == SortedByDate(images)
             dates == [i \in 1..Len(sorted_images) |-> sorted_images[i].date]
         IN  GapsFrom(dates, 1)

\* ------------------------------------------------- process_and_plot_groups
\* the frame left out of the detailed key
key_full_no_frame(p) == <<p.polarization, p.orbit_direction, p.platform, p.path, p.path>>

key_full(p)   == <<p.polarization, p.orbit_direction, p.platform, p.path, p.frame>>

\* the platform taken for the orbit direction in the simple key
key_simple_by_platform(p) == <<p.polarization, p.platform, p.path>>

key_simple(p) == <<p.polarization, p.orbit_direction, p.path>>

NoGroups   == [k \in {} |-> 0]
EmptyGroup == [count |-> 0, dates |-> << >>, products |-> << >>]

AddToGroup(g, key, p) ==
    LET old == IF key \in DOMAIN g THEN g[key] ELSE EmptyGroup IN
    [k \in DOMAIN g \cup {key} |->
        IF k = key
        THEN [count |-> old.count + 1, dates |-> Append(old.dates, p.date),
              products |-> Append(old.products, p)]
        ELSE g[k]]

RECURSIVE GroupFull(_)
GroupFull(prods) ==
    IF prods = << >> THEN NoGroups
    ELSE LET p == prods[Len(prods)] IN
         AddToGroup(GroupFull(SubSeq(prods, 1, Len(prods) - 1)), key_full(p), p)

RECURSIVE GroupSimple(_)
GroupSimple(prods) ==
    IF prods = << >> THEN NoGroups
    ELSE LET p == prods[Len(prods)] IN
         AddToGroup(GroupSimple(SubSeq(prods, 1, Len(prods) - 1)), key_simple(p), p)

\* a group of exactly min_imgs images kept
KeepGroup_at_least(count, min_imgs) == count >= min_imgs

KeepGroup(count, min_imgs) == count > min_imgs

FilterGroups(g, min_imgs) ==
    [k \in {kk \in DOMAIN g : KeepGroup(g[kk].count, min_imgs)} |-> g[k]]

PlotAll(g) == [k \in DOMAIN g |-> plot_temporal(g[k].products)]

\* the header of search_results_asf.txt, written before the first window
HeaderWritten == results_header' = config.min_images

\* "Number of Images" and the "Images" lines of every group written to the file
Listing(g) ==
    [k \in DOMAIN g |->
        [count |-> g[k].count,
         images |-> [i \in 1..Len(g[k].products) |-> g[k].products[i].filename]]]

process_and_plot_groups(prods) ==
    /\ grouped' = GroupFull(prods)
    /\ grouped_simple' = GroupSimple(prods)
    /\ search_results_file' = [detailed |-> Listing(grouped'),
                               simple |-> Listing(grouped_simple')]
    /\ plots' = [detailed |-> PlotAll(grouped'), simple |-> PlotAll(grouped_simple')]
    /\ filtered_grouped' = FilterGroups(grouped', config.min_images)
    /\ filtered_grouped_simple' = FilterGroups(grouped_simple', config.min_images)

\* ------------------------------------------------------- search_images_asf
Rejected(coverage, min_coverage) == CoverageLess(coverage, min_coverage)

Product(f, pol, orbit_direction, coverage) ==
    [filename |-> f.fileID, date |-> DateOf(f.startTime), platform |-> f.platform,
     polarization |-> pol, orbit_direction |-> orbit_direction,
     path |-> str(f.pathNumber), frame |-> str(f.frameNumber),
     coverage_percent |-> coverage]

\* the products appended while the first k features of a response are handled
RECURSIVE Accepted(_, _, _, _)
Accepted(feats, k, pol, orbit_direction) ==
    IF k = 0 THEN << >>
    ELSE LET f == feats[k]
             coverage == calculate_coverage_percent(region_geom, f.geometry)
             rest == Accepted(feats, k - 1, pol, orbit_direction)
         IN  IF f.isMetadata THEN rest
             ELSE IF Rejected(coverage, config.coverage_percent) THEN rest
             ELSE Append(rest, Product(f, pol, orbit_direction, coverage))

Min(a, b) == IF a <= b THEN a ELSE b

\* the last window not clipped to end_date
WindowEnd_unclipped(start) == start + date_step - 1

\* current_end = min(current_start + date_step - timedelta(days=1), end_date)
WindowEnd(start) == Min(start + date_step - 1, config.end_date)

Response == geo_search(catalog, platforms[li], orbit_directions[oi], polarizations[pi],
                       current_start, current_end)

Idle == /\ UNCHANGED <<grouped, grouped_simple, filtered_grouped,
                       filtered_grouped_simple, plots, search_results_file>>

\* the while loop's test, on entry and after each window
EnterWindow(start, prods) ==
    IF start <= config.end_date
    THEN /\ pc' = "query"
         /\ current_start' = start
         /\ current_end' = WindowEnd(start)
         /\ windows' = Append(windows, <<start, WindowEnd(start)>>)
         /\ pi' = 1 /\ oi' = 1 /\ li' = 1
         /\ Idle
    ELSE /\ pc' = "returned"
         /\ process_and_plot_groups(prods)
         /\ UNCHANGED <<current_start, current_end, windows, pi, oi, li>>

BeginSearch ==
    /\ pc = "start"
    /\ HeaderWritten
    /\ EnterWindow(config.start_date, all_products)
    /\ UNCHANGED <<config, region_geom, catalog, retries, failures, all_products, pvars, dvars>>

\* one archive query answered and wholly handled: on to the next query
QuerySucceeds ==
    /\ pc = "query"
    /\ LET prods == all_products \o
                       Accepted(Response, Len(Response), polarizations[pi], orbit_directions[oi])
       IN  /\ all_products' = prods
           /\ retries' = 0
           /\ IF li < Len(platforms)
              THEN /\ li' = li + 1
                   /\ UNCHANGED <<pc, current_start, current_end, windows, pi, oi>>
                   /\ Idle
              ELSE IF oi < Len(orbit_directions)
              THEN /\ oi' = oi + 1 /\ li' = 1
                   /\ UNCHANGED <<pc, current_start, current_end, windows, pi>>
                   /\ Idle
              ELSE IF pi < Len(polarizations)
              THEN /\ pi' = pi + 1 /\ oi' = 1 /\ li' = 1
                   /\ UNCHANGED <<pc, current_start, current_end, windows>>
                   /\ Idle
              ELSE EnterWindow(current_end + 1, prods)
    /\ UNCHANGED <<config, region_geom, catalog, failures, results_header, pvars, dvars>>

\* the error of the third failure is not raised
AfterQueryFailure_never_raises(retries_) == "query"

\* if retries == max_retries: raise ValueError(error_msg), else sleep and try again
AfterQueryFailure(retries_) == IF retries_ = search_max_retries THEN "raised" ELSE "query"

\* the query raises, at once (k = 0) or while its k-th feature is being handled
QueryFails ==
    /\ pc = "query"
    /\ failures < MaxFailures
    /\ \E k \in 0..Len(Response) :
          all_products' = all_products \o
              Accepted(Response, k, polarizations[pi], orbit_directions[oi])
    /\ failures' = failures + 1
    /\ retries' = retries + 1
    /\ pc' = AfterQueryFailure(retries + 1)
    /\ Idle
    /\ UNCHANGED <<config, region_geom, catalog, current_start, current_end, windows,
                   pi, oi, li, results_header, pvars, dvars>>

\* ============================================================ download stage
\* --------------------------------------------------------------- download_dem
\* bounding boxes in half degrees: lon_min, lat_min, lon_max, lat_max
BBox(lon_min, lat_min, lon_max, lat_max) ==
    [lon_min |-> lon_min, lat_min |-> lat_min, lon_max |-> lon_max, lat_max |-> lat_max]

BBoxes == { BBox(102, 70, 102, 70),      \* 51, 35, 51, 35: no tile
            BBox(102, 71, 103, 71),      \* 51, 35.5, 51.5, 35.5: one tile
            BBox(0, -1, 1, 1) }          \* 0, -0.5, 0.5, 0.5: tiles S01E000, N00E000

floor(x2) == x2 \div 2
ceil(x2)  == -((-x2) \div 2)

\* the tiles in the order of the two loops: lat outside, lon inside
Tiles(bbox) ==
    LET lat_lo == floor(bbox.lat_min)
        nlat   == ceil(bbox.lat_max) - lat_lo
        lon_lo == floor(bbox.lon_min)
        nlon   == ceil(bbox.lon_max) - lon_lo
    IN  IF nlat <= 0 \/ nlon <= 0 THEN << >>
        ELSE [i \in 1..(nlat * nlon) |->
                 <<lat_lo + ((i - 1) \div nlon), lon_lo + ((i - 1) % nlon)>>]

\* one tile is copied
WriteMode_always_merged(ntiles) == "merged"

WriteMode(ntiles) == IF ntiles = 1 THEN "copied" ELSE "merged"

\* every DEM outcome lets main go on
ProceedAfterDem_always(dem_ok, continue_without_dem) == TRUE

\* main: if not dem_success and not config['continue_without_dem']: exit(1)
ProceedAfterDem(dem_ok, continue_without_dem) == dem_ok \/ continue_without_dem

AfterDem(dem_ok) ==
    /\ dem_success' = (IF dem_ok THEN "True" ELSE "False")
    /\ IF ProceedAfterDem(dem_ok, dconf.continue_without_dem)
       THEN dpc' = "search" /\ exit_status' = exit_status
       ELSE dpc' = "exit" /\ exit_status' = 1

DemEnabled == dconf.download_dem /\ dem_file = "absent"

DemSkip ==
    /\ dpc = "dem"
    /\ ~DemEnabled
    /\ AfterDem(TRUE)
    /\ UNCHANGED <<dconf, success_logged, requested, faults, dem_file, tile_idx, dem_tiles,
                   tile_requests, tile_failed, sevars, ovars, slcvars, svars, pvars>>

DemTileStep == dpc = "dem" /\ DemEnabled /\ tile_idx <= Len(Tiles(dconf.bbox))

\* the .hgt of the tile is already in DEM_DIR
DemTileOnDisk ==
    /\ DemTileStep
    /\ dem_tiles' = Append(dem_tiles, Tiles(dconf.bbox)[tile_idx])
    /\ tile_idx' = tile_idx + 1
    /\ UNCHANGED <<mvars, dem_file, tile_requests, tile_failed, dem_success, sevars, ovars,
                   slcvars, svars, pvars>>

RequestTile ==
    /\ tile_requests' = [tile_requests EXCEPT ![tile_idx] = @ + 1]
    /\ requested' = requested \cup {"dem"}
    /\ tile_idx' = tile_idx + 1

DemTileFetched ==
    /\ DemTileStep
    /\ RequestTile
    /\ dem_tiles' = Append(dem_tiles, Tiles(dconf.bbox)[tile_idx])
    /\ UNCHANGED <<dconf, dpc, exit_status, success_logged, faults, dem_file, tile_failed,
                   dem_success, sevars, ovars, slcvars, svars, pvars>>

\* the request or the extraction raises: the tile is skipped
DemTileFetchFails ==
    /\ DemTileStep
    /\ faults < MaxFaults
    /\ RequestTile
    /\ faults' = faults + 1
    /\ tile_failed' = tile_failed \cup {tile_idx}
    /\ UNCHANGED <<dconf, dpc, exit_status, success_logged, dem_file, dem_tiles, dem_success,
                   sevars, ovars, slcvars, svars, pvars>>

\* the archive held no .hgt of the expected name: the tile is skipped
DemTileNotExtracted ==
    /\ DemTileStep
    /\ RequestTile
    /\ UNCHANGED <<dconf, dpc, exit_status, success_logged, faults, dem_file, dem_tiles,
                   tile_failed, dem_success, sevars, ovars, slcvars, svars, pvars>>

DemTilesDone == dpc = "dem" /\ DemEnabled /\ tile_idx > Len(Tiles(dconf.bbox))

DemNoTiles ==
    /\ DemTilesDone
    /\ dem_tiles = << >>
    /\ AfterDem(FALSE)
    /\ UNCHANGED <<dconf, success_logged, requested, faults, dem_file, tile_idx, dem_tiles,
                   tile_requests, tile_failed, sevars, ovars, slcvars, svars, pvars>>

DemWritten ==
    /\ DemTilesDone
    /\ dem_tiles # << >>
    /\ dem_file' = WriteMode(Len(dem_tiles))
    /\ AfterDem(TRUE)
    /\ UNCHANGED <<dconf, success_logged, requested, faults, tile_idx, dem_tiles,
                   tile_requests, tile_failed, sevars, ovars, slcvars, svars, pvars>>

\* rasterio raises while the tiles are read, merged or written; what it left of
\* DEM_FILE is not read again in this run
DemWriteFails ==
    /\ DemTilesDone
    /\ dem_tiles # << >>
    /\ AfterDem(FALSE)
    /\ UNCHANGED <<dconf, success_logged, requested, faults, dem_file, tile_idx, dem_tiles,
                   tile_requests, tile_failed, sevars, ovars, slcvars, svars, pvars>>

\* ----------------------------------------------------------- search_slc_images
\* main goes on to the orbits, or exits when there is no product
AfterSearch(found) ==
    /\ products' = found
    /\ IF found = << >>
       THEN dpc' = "exit" /\ exit_status' = 1
       ELSE dpc' = "orbits" /\ exit_status' = exit_status

\* the archive answers; dconf.scenes products pass the coverage filter, and main
\* sorts them by sensing time
SlcSearchAnswered ==
    /\ dpc = "search"
    /\ requested' = requested \cup {"search"}
    /\ AfterSearch([i \in 1..dconf.scenes |-> i])
    /\ UNCHANGED <<dconf, success_logged, faults, demvars, search_attempt, ovars, slcvars,
                   svars, pvars>>

SlcSearchFails ==
    /\ dpc = "search"
    /\ faults < MaxFaults
    /\ faults' = faults + 1
    /\ requested' = requested \cup {"search"}
    /\ IF search_attempt < slc_search_max_retries - 1
       THEN /\ search_attempt' = search_attempt + 1
            /\ UNCHANGED <<dpc, exit_status, products>>
       ELSE /\ search_attempt' = search_attempt
            /\ AfterSearch(<< >>)
    /\ UNCHANGED <<dconf, success_logged, demvars, ovars, slcvars, svars, pvars>>

\* --------------------------------------------------------------- download_orbit
orbit_types(prefer_orbit_type) ==
    IF prefer_orbit_type = "POEORB" THEN <<"POEORB", "RESORB">> ELSE <<"RESORB", "POEORB">>

Min2(a, b) == IF a <= b THEN a ELSE b

\* every batch taken from the first product on
Batch_from_first(i) == SubSeq(products, 1, Min2(i + dconf.batch_size, Len(products)))

\* products[i : i + batch_size]
Batch(i) == SubSeq(products, i + 1, Min2(i + dconf.batch_size, Len(products)))

\* main's loop over the products, then download_slc_batch submits its first batch
NextOrbitProduct ==
    IF o_prod < Len(products)
    THEN /\ o_prod' = o_prod + 1 /\ o_type' = 1 /\ o_attempt' = 0
         /\ UNCHANGED <<dpc, batch_start, pending>>
    ELSE /\ dpc' = "slc"
         /\ batch_start' = 0
         /\ pending' = Batch(0)
         /\ UNCHANGED <<o_prod, o_type, o_attempt>>

\* the for loop over orbit_types: the next type, or None when there is none left
NextOrbitType ==
    IF o_type < Len(orbit_types(dconf.prefer_orbit_type))
    THEN /\ o_type' = o_type + 1 /\ o_attempt' = 0
         /\ UNCHANGED <<o_prod, dpc, batch_start, pending, orbit_paths>>
    ELSE /\ orbit_paths' = [orbit_paths EXCEPT ![o_prod] = "None"]
         /\ NextOrbitProduct

RequestOrbit == requested' = requested \cup {"orbit"}

\* the listing is fetched, a file is valid at the sensing time and is on disk or
\* fetched and extracted: its path is returned
OrbitFound ==
    /\ dpc = "orbits"
    /\ RequestOrbit
    /\ orbit_paths' = [orbit_paths EXCEPT ![o_prod] = "path"]
    /\ NextOrbitProduct
    /\ UNCHANGED <<dconf, exit_status, success_logged, faults, demvars, sevars, orbit_gave_up,
                   running, slc_attempts, slc_result, all_paths, svars, pvars>>

\* the listing is fetched and no file of this type is valid at the sensing time
OrbitNoMatch ==
    /\ dpc = "orbits"
    /\ RequestOrbit
    /\ NextOrbitType
    /\ UNCHANGED <<dconf, exit_status, success_logged, faults, demvars, sevars, orbit_gave_up,
                   running, slc_attempts, slc_result, all_paths, svars, pvars>>

\* the listing, the file or its extraction raises
OrbitFetchFails ==
    /\ dpc = "orbits"
    /\ faults < MaxFaults
    /\ faults' = faults + 1
    /\ RequestOrbit
    /\ IF o_attempt < orbit_max_retries - 1
       THEN /\ o_attempt' = o_attempt + 1
            /\ UNCHANGED <<o_prod, o_type, dpc, batch_start, pending, orbit_paths, orbit_gave_up>>
       ELSE /\ orbit_gave_up' = [orbit_gave_up EXCEPT ![o_prod][o_type] = o_attempt + 1]
            /\ NextOrbitType
    /\ UNCHANGED <<dconf, exit_status, success_logged, demvars, sevars,
                   running, slc_attempts, slc_result, all_paths, svars, pvars>>

\* -------------------------------------------- download_slc_batch, download_single_slc
\* a worker takes one more download than the pool has threads
CanStart_no_limit(in_flight, num_threads) == TRUE

\* ThreadPoolExecutor(max_workers=num_threads)
CanStart(in_flight, num_threads) == in_flight < num_threads

\* one attempt too many
SlcOnFailure_one_more(attempt) == IF attempt < slc_max_retries THEN "retry" ELSE "None"

\* after the failed attempt of index attempt (from 0): sleep and retry, or return None
SlcOnFailure(attempt) == IF attempt < slc_max_retries - 1 THEN "retry" ELSE "None"

WorkerFree == dpc = "slc" /\ pending # << >> /\ CanStart(Cardinality(running), dconf.num_threads)

\* a worker thread enters download_single_slc for the next submitted product
SlcStart ==
    /\ WorkerFree
    /\ running' = running \cup {Head(pending)}
    /\ pending' = Tail(pending)
    /\ UNCHANGED <<mvars, demvars, sevars, ovars, batch_start, slc_attempts, slc_result,
                   all_paths, svars, pvars>>

\* the .zip is already in OUTPUT_DIR: its path is returned without a request
SlcStartExists ==
    /\ WorkerFree
    /\ pending' = Tail(pending)
    /\ slc_result' = [slc_result EXCEPT ![Head(pending)] = "path"]
    /\ all_paths' = Append(all_paths, Head(pending))
    /\ UNCHANGED <<mvars, demvars, sevars, ovars, batch_start, running, slc_attempts,
                   svars, pvars>>

\* the session cannot be authenticated: None is returned without a request
SlcStartAuthFails ==
    /\ WorkerFree
    /\ faults < MaxFaults
    /\ faults' = faults + 1
    /\ pending' = Tail(pending)
    /\ slc_result' = [slc_result EXCEPT ![Head(pending)] = "None"]
    /\ UNCHANGED <<dconf, dpc, exit_status, success_logged, requested, demvars, sevars, ovars,
                   batch_start, running, slc_attempts, all_paths, svars, pvars>>

SlcAttemptSucceeds ==
    /\ dpc = "slc"
    /\ \E p \in running :
          /\ slc_attempts' = [slc_attempts EXCEPT ![p] = @ + 1]
          /\ slc_result' = [slc_result EXCEPT ![p] = "path"]
          /\ running' = running \ {p}
          /\ all_paths' = Append(all_paths, p)
    /\ requested' = requested \cup {"slc"}
    /\ UNCHANGED <<dconf, dpc, exit_status, success_logged, faults, demvars, sevars, ovars,
                   batch_start, pending, svars, pvars>>

SlcAttemptFails ==
    /\ dpc = "slc"
    /\ faults < MaxFaults
    /\ faults' = faults + 1
    /\ \E p \in running :
          /\ slc_attempts' = [slc_attempts EXCEPT ![p] = @ + 1]
          /\ IF SlcOnFailure(slc_attempts[p]) = "retry"
             THEN UNCHANGED <<slc_result, running>>
             ELSE /\ slc_result' = [slc_result EXCEPT ![p] = "None"]
                  /\ running' = running \ {p}
    /\ requested' = requested \cup {"slc"}
    /\ UNCHANGED <<dconf, dpc, exit_status, success_logged, demvars, sevars, ovars,
                   batch_start, pending, all_paths, svars, pvars>>

\* every future of the batch is done and the executor is shut down: the next batch
\* is submitted, or main unzips, logs its success and exits
BatchDone ==
    /\ dpc = "slc"
    /\ pending = << >> /\ running = {}
    /\ IF batch_start + dconf.batch_size < Len(products)
       THEN /\ batch_start' = batch_start + dconf.batch_size
            /\ pending' = Batch(batch_start + dconf.batch_size)
            /\ UNCHANGED <<dpc, exit_status, success_logged>>
       ELSE /\ success_logged' = TRUE
            /\ exit_status' = 0
            /\ dpc' = "exit"
            /\ UNCHANGED <<batch_start, pending>>
    /\ UNCHANGED <<dconf, requested, faults, demvars, sevars, ovars, running, slc_attempts,
                   slc_result, all_paths, svars, pvars>>

\* ------------------------------------------------------------------- Init
MinImagesChoices == {1, 2}
CoverageChoices  == {50, 100}
EndDates         == {-1, 30}
Regions          == {RegionBox, RegionLine}
PlotDates        == {0, 11, 12, 13, 25, 26}

RECURSIVE SeqsUpTo(_, _)
SeqsUpTo(S, n) ==
    IF n = 0 THEN {<< >>}
    ELSE LET shorter == SeqsUpTo(S, n - 1) IN
         shorter \cup {Append(q, x) : q \in shorter, x \in S}

SearchFresh ==
    /\ current_start = 0 /\ current_end = 0
    /\ pi = 1 /\ oi = 1 /\ li = 1
    /\ retries = 0 /\ failures = 0
    /\ all_products = << >>
    /\ windows = << >>
    /\ grouped = NoGroups /\ grouped_simple = NoGroups
    /\ filtered_grouped = NoGroups /\ filtered_grouped_simple = NoGroups
    /\ plots = [detailed |-> NoGroups, simple |-> NoGroups]
    /\ results_header = -1
    /\ search_results_file = [detailed |-> NoGroups, simple |-> NoGroups]

SearchIdle ==
    /\ config = [min_images |-> 1, coverage_percent |-> 100, start_date |-> 0, end_date |-> 0]
    /\ region_geom = RegionBox
    /\ catalog = {}
    /\ pc = "idle"
    /\ SearchFresh

PlotIdle == image_info = << >> /\ gap_dates = << >> /\ plot_pc = "idle"

DownloadFresh ==
    /\ exit_status = -1
    /\ success_logged = FALSE
    /\ requested = {}
    /\ faults = 0
    /\ tile_idx = 1 /\ dem_tiles = << >> /\ dem_success = "pending"
    /\ tile_requests = [i \in 1..Len(Tiles(dconf.bbox)) |-> 0]
    /\ tile_failed = {}
    /\ search_attempt = 0 /\ products = << >>
    /\ o_prod = 1 /\ o_type = 1 /\ o_attempt = 0
    /\ orbit_paths = [p \in 1..dconf.scenes |-> "pending"]
    /\ orbit_gave_up = [p \in 1..dconf.scenes |-> <<0, 0>>]
    /\ batch_start = 0 /\ pending = << >> /\ running = {}
    /\ slc_attempts = [p \in 1..dconf.scenes |-> 0]
    /\ slc_result = [p \in 1..dconf.scenes |-> "pending"]
    /\ all_paths = << >>

DownloadIdle ==
    /\ dconf = [download_dem |-> FALSE, continue_without_dem |-> FALSE,
                bbox |-> BBox(0, 0, 0, 0), prefer_orbit_type |-> "POEORB",
                batch_size |-> 1, num_threads |-> 1, scenes |-> 0]
    /\ dpc = "idle"
    /\ dem_file = "absent"
    /\ DownloadFresh

InitSearch ==
    /\ config \in [min_images : MinImagesChoices, coverage_percent : CoverageChoices,
                   start_date : {0}, end_date : EndDates]
    /\ region_geom \in Regions
    /\ catalog \in {c \in SUBSET (1..Len(Features)) : Cardinality(c) <= MaxProducts}
    /\ pc = "start"
    /\ SearchFresh
    /\ PlotIdle
    /\ DownloadIdle

NextSearch == BeginSearch \/ QuerySucceeds \/ QueryFails

SpecSearch == InitSearch /\ [][NextSearch]_vars

InitPlot ==
    /\ SearchIdle
    /\ image_info \in SeqsUpTo({[date |-> d] : d \in PlotDates}, MaxImages)
    /\ gap_dates = << >>
    /\ plot_pc = "ready"
    /\ DownloadIdle

PlotTemporal ==
    /\ plot_pc = "ready"
    /\ gap_dates' = plot_temporal(image_info)
    /\ plot_pc' = "done"
    /\ UNCHANGED <<image_info, svars, dvars>>

NextPlot == PlotTemporal

SpecPlot == InitPlot /\ [][NextPlot]_vars

DownloadConfigs(bboxes, batch_sizes, thread_counts, scene_counts) ==
    [download_dem : BOOLEAN, continue_without_dem : BOOLEAN, bbox : bboxes,
     prefer_orbit_type : {"POEORB"}, batch_size : batch_sizes, num_threads : thread_counts,
     scenes : scene_counts]

\* main, from its first step
InitDownload ==
    /\ SearchIdle
    /\ PlotIdle
    /\ dconf \in DownloadConfigs({BBox(102, 71, 103, 71)}, 1..MaxBatch, 1..MaxThreads,
                                 0..MaxScenes)
    /\ dpc = "dem"
    /\ dem_file \in {"absent", "present"}
    /\ DownloadFresh

NextDem ==
    \/ DemSkip \/ DemTileOnDisk \/ DemTileFetched \/ DemTileFetchFails
    \/ DemTileNotExtracted \/ DemNoTiles \/ DemWritten \/ DemWriteFails

NextSlc ==
    \/ SlcStart \/ SlcStartExists \/ SlcStartAuthFails
    \/ SlcAttemptSucceeds \/ SlcAttemptFails \/ BatchDone

NextDownload ==
    \/ NextDem
    \/ SlcSearchAnswered \/ SlcSearchFails
    \/ OrbitFound \/ OrbitNoMatch \/ OrbitFetchFails
    \/ NextSlc

SpecDownload == InitDownload /\ [][NextDownload]_vars

\* download_dem on its own, over every bounding box
InitDem ==
    /\ SearchIdle
    /\ PlotIdle
    /\ dconf \in DownloadConfigs(BBoxes, {1}, {1}, {0})
    /\ dpc = "dem"
    /\ dem_file \in {"absent", "present"}
    /\ DownloadFresh

SpecDem == InitDem /\ [][NextDem]_vars

\* download_slc_batch on its own, called by main after the orbit step
InitSlc ==
    /\ SearchIdle
    /\ PlotIdle
    /\ dconf \in {c \in DownloadConfigs({BBox(102, 71, 103, 71)}, 1..MaxBatch, 1..MaxThreads,
                                        1..(MaxScenes + 1)) :
                      ~c.download_dem /\ ~c.continue_without_dem}
    /\ dpc = "slc"
    /\ dem_file = "absent"
    /\ exit_status = -1
    /\ success_logged = FALSE
    /\ requested = {"search", "orbit"}
    /\ faults = 0
    /\ tile_idx = 1 /\ dem_tiles = << >> /\ dem_success = "True"
    /\ tile_requests = [i \in 1..Len(Tiles(dconf.bbox)) |-> 0]
    /\ tile_failed = {}
    /\ search_attempt = 0 /\ products = [i \in 1..dconf.scenes |-> i]
    /\ o_prod = dconf.scenes /\ o_type = 1 /\ o_attempt = 0
    /\ orbit_paths = [p \in 1..dconf.scenes |-> "path"]
    /\ orbit_gave_up = [p \in 1..dconf.scenes |-> <<0, 0>>]
    /\ batch_start = 0
    /\ pending = SubSeq([i \in 1..dconf.scenes |-> i], 1, Min2(dconf.batch_size, dconf.scenes))
    /\ running = {}
    /\ slc_attempts = [p \in 1..dconf.scenes |-> 0]
    /\ slc_result = [p \in 1..dconf.scenes |-> "pending"]
    /\ all_paths = << >>

SpecSlc == InitSlc /\ [][NextSlc]_vars

\* every request is answered or times out, and every sleep ends
SpecSlcFair == SpecSlc /\ WF_vars(NextSlc)

\* ------------------------------------------------------------------ claims
Indices(q) == 1..Len(q)

CountFull(k) ==
    Cardinality({i \in Indices(all_products) :
        LET p == all_products[i] IN
        <<p.polarization, p.orbit_direction, p.platform, p.path, p.frame>> = k})

CountSimple(k) ==
    Cardinality({i \in Indices(all_products) :
        LET p == all_products[i] IN <<p.polarization, p.orbit_direction, p.path>> = k})

FullKeys ==
    {<<all_products[i].polarization, all_products[i].orbit_direction,
       all_products[i].platform, all_products[i].path, all_products[i].frame>> :
     i \in Indices(all_products)}

SimpleKeys ==
    {<<all_products[i].polarization, all_products[i].orbit_direction,
       all_products[i].path>> : i \in Indices(all_products)}

\* C1 (as amended): process_and_plot_groups returns a group, detailed or simple,
\* if and only if it holds MORE than min_images images.
C1_ReturnedIffMoreThanMin ==
    pc = "returned" =>
        /\ DOMAIN filtered_grouped = {k \in FullKeys : CountFull(k) > config.min_images}
        /\ DOMAIN filtered_grouped_simple =
               {k \in SimpleKeys : CountSimple(k) > config.min_images}

\* C1 (as stated): a group is returned if and only if its number of images is at
\* least min_images.
C1_ReturnedIffAtLeastMin ==
    pc = "returned" =>
        /\ DOMAIN filtered_grouped = {k \in FullKeys : CountFull(k) >= config.min_images}
        /\ DOMAIN filtered_grouped_simple =
               {k \in SimpleKeys : CountSimple(k) >= config.min_images}

\* a group of exactly min_images images was dropped next to a larger one returned
C1_Witness ==
    /\ pc = "returned"
    /\ \E k \in FullKeys : CountFull(k) = config.min_images
    /\ \E k \in DOMAIN filtered_grouped : filtered_grouped[k].count = config.min_images + 1

FeatureOf(id) == Features[CHOOSE i \in Indices(Features) : Features[i].fileID = id]

CoverageOk(p) ==
    LET f == FeatureOf(p.filename)
        common == region_geom.cells \cap f.geometry.cells
    IN  /\ f.geometry.valid
        /\ Cardinality(region_geom.cells) > 0
        /\ common # {}
        /\ p.coverage_percent =
               <<Cardinality(common) * 100, Cardinality(region_geom.cells)>>
        /\ Cardinality(common) * 100 >= config.coverage_percent * Cardinality(region_geom.cells)

GroupProducts(g) ==
    UNION {{g[k].products[j] : j \in Indices(g[k].products)} : k \in DOMAIN g}

\* C2: every product that reaches all_products or a group has
\* coverage = area(region /\ footprint) / area(region) * 100 >= coverage_percent;
\* an empty intersection, a zero-area region or a failed computation never gets in.
C2_CoverageFilter ==
    /\ \A i \in Indices(all_products) : CoverageOk(all_products[i])
    /\ \A p \in GroupProducts(grouped) \cup GroupProducts(grouped_simple) : CoverageOk(p)
    /\ \A p \in GroupProducts(filtered_grouped) \cup GroupProducts(filtered_grouped_simple) :
           CoverageOk(p)

\* a product of exactly the required coverage is in a returned group while a
\* queried product of the archive was left out for its coverage
C2_Witness ==
    /\ pc = "returned"
    /\ \E p \in GroupProducts(filtered_grouped) :
           p.coverage_percent[1] = config.coverage_percent * p.coverage_percent[2]
    /\ \E i \in catalog :
           /\ ~Features[i].isMetadata
           /\ InRange(Features[i].startTime, config.start_date, config.end_date)
           /\ \A j \in Indices(all_products) : all_products[j].filename # Features[i].fileID

Agree5(p, q) ==
    /\ p.polarization = q.polarization /\ p.orbit_direction = q.orbit_direction
    /\ p.platform = q.platform /\ p.path = q.path /\ p.frame = q.frame

Agree3(p, q) ==
    /\ p.polarization = q.polarization /\ p.orbit_direction = q.orbit_direction
    /\ p.path = q.path

GroupsOf(g, p) == {k \in DOMAIN g : \E j \in Indices(g[k].products) : g[k].products[j] = p}

RECURSIVE SumCounts(_, _)
SumCounts(g, keys) ==
    IF keys = {} THEN 0
    ELSE LET k == CHOOSE x \in keys : TRUE IN g[k].count + SumCounts(g, keys \ {k})

\* C3: every accepted product is in exactly one detailed and one simple group; two
\* products share a detailed (simple) group iff they agree on the five (three) key
\* fields; a group's count is the number of its products and of its dates; the
\* counts of the detailed and of the simple groups each sum to the number accepted.
C3_Grouping ==
    pc = "returned" =>
        /\ \A i \in Indices(all_products) :
               /\ Cardinality(GroupsOf(grouped, all_products[i])) = 1
               /\ Cardinality(GroupsOf(grouped_simple, all_products[i])) = 1
        /\ \A i, j \in Indices(all_products) :
               LET p == all_products[i]
                   q == all_products[j]
               IN  /\ (GroupsOf(grouped, p) \cap GroupsOf(grouped, q) # {}) <=> Agree5(p, q)
                   /\ (GroupsOf(grouped_simple, p) \cap GroupsOf(grouped_simple, q) # {})
                          <=> Agree3(p, q)
        /\ \A k \in DOMAIN grouped :
               /\ grouped[k].count = Len(grouped[k].products)
               /\ grouped[k].count = Len(grouped[k].dates)
               /\ grouped[k].count > 0
        /\ \A k \in DOMAIN grouped_simple :
               /\ grouped_simple[k].count = Len(grouped_simple[k].products)
               /\ grouped_simple[k].count = Len(grouped_simple[k].dates)
               /\ grouped_simple[k].count > 0
        /\ SumCounts(grouped, DOMAIN grouped) = Len(all_products)
        /\ SumCounts(grouped_simple, DOMAIN grouped_simple) = Len(all_products)

\* three products in two detailed groups of one simple group
C3_Witness ==
    /\ pc = "returned"
    /\ Len(all_products) = 3
    /\ Cardinality(DOMAIN grouped) = 2
    /\ Cardinality(DOMAIN grouped_simple) = 1
    /\ \E i, j \in Indices(all_products) :
           /\ all_products[i].frame # all_products[j].frame
           /\ all_products[i].platform = all_products[j].platform

PlotDateSet == {image_info[i].date : i \in Indices(image_info)}

\* the pairs of neighbouring acquisition dates more than 12 days apart
WidePairs ==
    {<<d, e>> \in PlotDateSet \X PlotDateSet :
        /\ e - d > 12
        /\ \A x \in PlotDateSet : ~(d < x /\ x < e)}

\* C4: plot_temporal marks a gap between two consecutive dates of the sorted
\* sequence iff they are more than 12 days apart, whatever the order of the images:
\* one marker per such pair, halfway between its dates.
C4_GapMarkers ==
    plot_pc = "done" =>
        /\ Len(gap_dates) = Cardinality(WidePairs)
        /\ {gap_dates[i] : i \in Indices(gap_dates)} = {w[1] + w[2] : w \in WidePairs}

\* images given out of order, with neighbours 12 days apart (no marker) and 13
\* days apart (one marker)
C4_Witness ==
    /\ plot_pc = "done"
    /\ image_info = <<[date |-> 25], [date |-> 0], [date |-> 12]>>
    /\ gap_dates = <<37>>

\* ------------------------------------------------- claims, download stage
Scenes == 1..Len(products)

\* every tile given up after a failed fetch had been requested again
RetriedTiles == \A t \in tile_failed : tile_requests[t] >= 2

\* every orbit type given up after a failed fetch had been fetched again
RetriedOrbits ==
    \A p \in DOMAIN orbit_gave_up : \A ty \in 1..2 :
        orbit_gave_up[p][ty] # 0 => orbit_gave_up[p][ty] >= 2

\* every scene given up after a failed fetch had been fetched again
RetriedScenes ==
    \A p \in DOMAIN slc_result :
        (slc_result[p] = "None" /\ slc_attempts[p] >= 1) => slc_attempts[p] >= 2

\* C5: a failed fetch of a scene, of an orbit listing or file and of a DEM tile is
\* each attempted again before the program gives up on that item.
C5_RetryAllThree == RetriedScenes /\ RetriedOrbits /\ RetriedTiles

\* C5, the two resources the code does retry
C5_ScenesAndOrbitsRetried == RetriedScenes /\ RetriedOrbits

SlcReturned(p) == slc_result[p] # "pending"

\* C6: download_single_slc makes at most 5 attempts for a scene, returns the path
\* at the first attempt that succeeds and makes no further attempt, returns None
\* after 5 failed attempts (or with none made, when the session fails), never
\* raises, and always returns.
C6_AtMostFiveAttempts ==
    /\ [](\A p \in DOMAIN slc_result :
            /\ slc_attempts[p] <= 5
            /\ slc_result[p] \in {"pending", "path", "None"}
            /\ p \in running => (slc_result[p] = "pending" /\ slc_attempts[p] < 5)
            /\ slc_result[p] = "None" => slc_attempts[p] \in {0, 5})
    /\ [][\A p \in DOMAIN slc_result :
            /\ SlcReturned(p) =>
                   (slc_attempts'[p] = slc_attempts[p] /\ slc_result'[p] = slc_result[p])
            /\ slc_attempts'[p] # slc_attempts[p] =>
                   (p \in running /\ slc_attempts'[p] = slc_attempts[p] + 1)
            /\ (p \in running /\ slc_attempts'[p] = 5 /\ slc_attempts[p] = 4) =>
                   (slc_result'[p] \in {"path", "None"} /\ p \notin running')]_vars
    /\ <>(\A p \in DOMAIN slc_result : SlcReturned(p) /\ p \notin running)

\* one scene given up after its fifth failed attempt, another downloaded
C6_Witness ==
    /\ \E p \in DOMAIN slc_result : slc_result[p] = "None" /\ slc_attempts[p] = 5
    /\ \E p \in DOMAIN slc_result : slc_result[p] = "path" /\ slc_attempts[p] >= 1

BatchOf(p) == (p - 1) \div dconf.batch_size

SlcStarted(p) == p \in running \/ SlcReturned(p) \/ slc_attempts[p] > 0

\* C7: never more than num_threads, nor more than batch_size, scene downloads are
\* in flight, and no download of a batch starts before every download of the
\* batches before it has finished.
C7_BoundedConcurrency ==
    dpc # "idle" =>
        /\ Cardinality(running) <= dconf.num_threads
        /\ Cardinality(running) <= dconf.batch_size
        /\ \A p, q \in DOMAIN slc_result :
               (SlcStarted(p) /\ BatchOf(q) < BatchOf(p)) =>
                   (SlcReturned(q) /\ q \notin running)

\* two downloads in flight while a later batch waits
C7_Witness ==
    /\ dpc = "slc"
    /\ Cardinality(running) = 2
    /\ dconf.num_threads = 2 /\ dconf.batch_size = 2
    /\ Len(products) = 3 /\ ~SlcStarted(3)

DemSkipped == ~dconf.download_dem \/ dem_file = "present"

\* C8: with downloading enabled and no DEM_FILE, download_dem returns True only
\* after DEM_FILE was written from the tiles obtained, copied from one, merged from
\* several, and False when no tile was obtained or writing failed; otherwise it
\* returns True without any request.
C8_SingleRaster ==
    dpc \in {"dem", "search", "exit"} =>
        /\ dem_success = "pending" => dem_file \in {"absent", "present"}
        /\ (dem_success # "pending" /\ DemSkipped) =>
               /\ dem_success = "True"
               /\ "dem" \notin requested
               /\ \A t \in DOMAIN tile_requests : tile_requests[t] = 0
               /\ dem_file \in {"absent", "present"}
        /\ (dem_success # "pending" /\ ~DemSkipped) =>
               /\ dem_success = "True" <=> dem_file \in {"copied", "merged"}
               /\ dem_success = "True" => dem_tiles # << >>
               /\ dem_tiles = << >> => dem_success = "False"
               /\ dem_file = "copied" => Len(dem_tiles) = 1
               /\ dem_file = "merged" => Len(dem_tiles) > 1

\* two tiles obtained, one of them fetched, and merged
C8_Witness ==
    /\ dem_success = "True"
    /\ dem_file = "merged"
    /\ Len(dem_tiles) = 2
    /\ "dem" \in requested

SlcBegun == dpc = "slc" \/ running # {} \/ "slc" \in requested
                \/ \E p \in DOMAIN slc_result : SlcReturned(p)

\* C9: main runs DEM, scene search, orbits, scenes in this order: a failed DEM
\* without continue_without_dem exits with status 1 before any search, orbit or
\* scene request; an empty search exits with status 1 before any orbit or scene
\* request; no scene download starts before the orbit step is done for every product.
C9_StepOrder ==
    dpc # "idle" =>
        /\ (dem_success = "False" /\ ~dconf.continue_without_dem) =>
               /\ dpc = "exit" /\ exit_status = 1
               /\ requested \subseteq {"dem"}
               /\ products = << >> /\ ~SlcBegun
        /\ (dpc # "dem" \/ requested \cap {"search", "orbit", "slc"} # {}) =>
               dem_success # "pending"
        /\ (dpc = "exit" /\ products = << >>) =>
               /\ exit_status = 1
               /\ requested \cap {"orbit", "slc"} = {}
               /\ ~SlcBegun
        /\ requested \cap {"orbit", "slc"} # {} => (products # << >> /\ "search" \in requested)
        /\ SlcBegun => \A p \in Scenes : orbit_paths[p] # "pending"

\* a DEM tile was requested, download_dem failed, and main left before the search
C9_Witness ==
    /\ dpc = "exit" /\ exit_status = 1
    /\ dem_success = "False"
    /\ "dem" \in requested
    /\ dconf.scenes > 0

\* C10: main logs "All downloads completed successfully!" and exits with status 0
\* only if download_single_slc returned a path for every product of the search.
C10_SuccessOnlyIfAllDownloaded ==
    (success_logged \/ exit_status = 0) => \A p \in Scenes : slc_result[p] = "path"

\* ------------------------------------------- claims, the search's queries
\* the query search_images_asf is at: window, polarization, orbit, platform
QueryAt == <<current_start, current_end, pi, oi, li>>

NothingGrouped ==
    /\ grouped = NoGroups /\ grouped_simple = NoGroups
    /\ filtered_grouped = NoGroups /\ filtered_grouped_simple = NoGroups

\* C11: each archive query is attempted at most 3 times (at most 2 failures behind
\* a running attempt), a success ends its retries and moves on to the next query,
\* and the third failure in a row aborts the search: no step follows it, no later
\* query is issued, process_and_plot_groups is not called, no groups are returned.
C11_ThreeAttemptsThenAbort ==
    /\ [](/\ retries \in 0..search_max_retries
          /\ pc = "query" => retries < search_max_retries
          /\ pc = "raised" <=> retries = search_max_retries
          /\ pc = "raised" => NothingGrouped)
    /\ [][/\ pc # "raised"
          /\ retries' # retries =>
                 \/ retries' = retries + 1 /\ QueryAt' = QueryAt /\ windows' = windows
                 \/ retries' = 0
          /\ (pc = "query" /\ retries' = 0) => (QueryAt' # QueryAt \/ pc' = "returned")
          /\ (pc = "query" /\ retries' = search_max_retries) => pc' = "raised"]_vars

\* the second query of a window fails three times after the first one had
\* succeeded and given a product
C11_Witness ==
    /\ pc = "raised"
    /\ li = 2 /\ retries = search_max_retries
    /\ all_products # << >>
    /\ all_products[1].platform = "Sentinel-1A"

\* ---------------------------------------------- the search's date windows
\* start_date and end_date are any two dates: ranges of no, one, two and three
\* windows, some with a window ending on day 12, where A12 and B12 were acquired
WindowStartDates == {-167, 0}
WindowEndDates   == {-1, 0, 12, 13, 30, 179, 180, 200}

FeatureIdx(id) == CHOOSE i \in 1..Len(Features) : Features[i].fileID = id

WindowsInit(catalogs) ==
    /\ config \in [min_images : {1}, coverage_percent : {50},
                   start_date : WindowStartDates, end_date : WindowEndDates]
    /\ region_geom = RegionBox
    /\ catalog \in catalogs
    /\ pc = "start"
    /\ SearchFresh
    /\ PlotIdle
    /\ DownloadIdle

InitWindows == WindowsInit(SUBSET {FeatureIdx("A0"), FeatureIdx("A12"), FeatureIdx("B12")})

SpecWindows == InitWindows /\ [][NextSearch]_vars

\* the loop on its own: the archive's content has no part in its control
InitWindowLoop == WindowsInit({{}, {FeatureIdx("A12")}})

\* every query is answered or raises: geo_search returns, time.sleep(5) ends
SpecWindowsFair == InitWindowLoop /\ [][NextSearch]_vars /\ WF_vars(NextSearch)

\* ------------------------------------------------------ claims, date windows
WindowIdx == 1..Len(windows)

\* ceil(days / date_step) for the days of start_date..end_date
WindowCount ==
    IF config.start_date > config.end_date THEN 0
    ELSE (config.end_date - config.start_date + date_step) \div date_step

\* the windows issued so far are a chain from start_date, each of 1..180 days
WindowChain ==
    /\ config.start_date > config.end_date => windows = << >>
    /\ windows # << >> => windows[1][1] = config.start_date
    /\ \A i \in WindowIdx :
          /\ windows[i][1] <= windows[i][2]
          /\ windows[i][2] - windows[i][1] + 1 <= 180
          /\ windows[i][2] <= config.end_date
          /\ i > 1 => windows[i][1] = windows[i - 1][2] + 1
    /\ Len(windows) <= WindowCount

\* C12: the date-window loop terminates for every start_date and end_date; it
\* issues no window when start_date > end_date, and otherwise finitely many, the
\* first starting on start_date, the last ending on end_date, each of at most 180
\* days and each starting the day after the one before it ends.
C12_WindowsTerminate ==
    /\ [](/\ WindowChain
          /\ pc = "returned" =>
                 /\ Len(windows) = WindowCount
                 /\ windows # << >> => windows[Len(windows)][2] = config.end_date)
    /\ [][windows' # windows =>
              /\ Len(windows') = Len(windows) + 1
              /\ windows # << >> => current_start' > current_start]_vars
    /\ <>(pc \in {"returned", "raised"})

\* three windows were issued and the search returned
C12_Witness ==
    /\ pc = "returned"
    /\ Len(windows) = 3
    /\ windows[1] = <<-167, 12>> /\ windows[3] = <<193, 200>>

\* the windows whose start <= t <= end, start and end being the midnights passed
\* to geo_search
WindowsHolding(t) == {i \in WindowIdx : InRange(t, windows[i][1], windows[i][2])}

\* C13: once every window was queried, every acquisition instant t with
\* start_date 00:00 <= t <= end_date 00:00 lies in exactly one queried window.
C13_NoHoles ==
    pc = "returned" =>
        \A d \in config.start_date..config.end_date : \A h \in {0, 1} :
            LET t == [day |-> d, tod |-> h] IN
            InRange(t, config.start_date, config.end_date) =>
                Cardinality(WindowsHolding(t)) = 1

\* C13, on days only: every day of start_date..end_date is a day of exactly one window
C13_NoMissingDay ==
    pc = "returned" =>
        \A d \in config.start_date..config.end_date :
            Cardinality({i \in WindowIdx : windows[i][1] <= d /\ d <= windows[i][2]}) = 1

\* C13, its consequence: a product of the archive acquired within the range, of
\* full coverage, is among the products found when no query failed
C13_NoProductLost ==
    (pc = "returned" /\ failures = 0) =>
        \A i \in catalog :
            LET f == Features[i] IN
            (InRange(f.startTime, config.start_date, config.end_date)
                 /\ ~f.isMetadata /\ f.geometry = FootFull) =>
                \E j \in Indices(all_products) : all_products[j].filename = f.fileID

\* ------------------------------------------- claims, products and groups
NoRepeat(prods) ==
    \A i, j \in Indices(prods) : prods[i].filename = prods[j].filename => i = j

\* C14: a product of the archive is in all_products at most once, also after a
\* failed and retried query, and so at most once in every group, whose count is
\* the number of its distinct products.
C14_NoDuplicates ==
    /\ NoRepeat(all_products)
    /\ \A k \in DOMAIN grouped : NoRepeat(grouped[k].products)
    /\ \A k \in DOMAIN grouped_simple : NoRepeat(grouped_simple[k].products)

\* C14, when no query failed
C14_NoDuplicatesWithoutFailure == failures = 0 => C14_NoDuplicates

\* C15: the results file lists only groups of more than min_images images, as
\* its header states: the groups written to search_results_asf.txt are the groups
\* process_and_plot_groups returns.
C15_FileListsReturnedGroups ==
    pc = "returned" =>
        /\ results_header = config.min_images
        /\ \A k \in DOMAIN search_results_file.detailed :
               search_results_file.detailed[k].count > results_header
        /\ \A k \in DOMAIN search_results_file.simple :
               search_results_file.simple[k].count > results_header
        /\ DOMAIN search_results_file.detailed = DOMAIN filtered_grouped
        /\ DOMAIN search_results_file.simple = DOMAIN filtered_grouped_simple

\* C15, what the file holds: every group, the returned ones among them
C15_FileListsEveryGroup ==
    pc = "returned" =>
        /\ DOMAIN search_results_file.detailed = DOMAIN grouped
        /\ DOMAIN search_results_file.simple = DOMAIN grouped_simple
        /\ DOMAIN filtered_grouped \subseteq DOMAIN search_results_file.detailed
        /\ DOMAIN filtered_grouped_simple \subseteq DOMAIN search_results_file.simple
        /\ \A k \in DOMAIN grouped : search_results_file.detailed[k].count = grouped[k].count

\* the simple group (polarization, orbit, path) of a detailed key
SimpleOf(k) == <<k[1], k[2], k[4]>>

\* C16: for every detailed group returned, the simple group it belongs to is
\* returned too, with a count at least as large; so no simple group returned
\* means no detailed group returned.
C16_SimpleHoldsDetailed ==
    /\ \A k \in DOMAIN filtered_grouped :
          /\ SimpleOf(k) \in DOMAIN filtered_grouped_simple
          /\ filtered_grouped_simple[SimpleOf(k)].count >= filtered_grouped[k].count
    /\ filtered_grouped_simple = NoGroups => filtered_grouped = NoGroups

\* a detailed group is returned and its simple group holds one image more, of
\* the other platform
C16_Witness ==
    /\ pc = "returned"
    /\ \E k \in DOMAIN filtered_grouped :
          /\ SimpleOf(k) \in DOMAIN filtered_grouped_simple
          /\ filtered_grouped_simple[SimpleOf(k)].count > filtered_grouped[k].count

\* C16, the converse that does not hold: simple groups returned, no detailed one
C16_SimpleWithoutDetailed ==
    /\ pc = "returned"
    /\ filtered_grouped = NoGroups
    /\ filtered_grouped_simple # NoGroups

\* ------------------------------------------- claims, download_slc_batch
\* submitted to the executor of the running batch and not yet taken by a worker
Submitted(q, p) == \E i \in 1..Len(q) : q[i] = p

PathsReturned == {all_paths[i] : i \in 1..Len(all_paths)}

\* C17: download_slc_batch submits download_single_slc exactly once for every
\* product (a product is submitted only if never started before, every product has
\* returned when the function returns), whatever batch_size, num_threads and the
\* other downloads' outcomes; the list it returns holds exactly the products whose
\* download returned a path, each once; and it always goes through every batch.
C17_EveryProductOnce ==
    /\ [](/\ \A i, j \in 1..Len(pending) : pending[i] = pending[j] => i = j
          /\ \A p \in Scenes : Submitted(pending, p) => ~SlcStarted(p)
          /\ \A i, j \in 1..Len(all_paths) : all_paths[i] = all_paths[j] => i = j
          /\ PathsReturned = {p \in Scenes : slc_result[p] = "path"}
          /\ Len(all_paths) <= Len(products)
          /\ dpc = "exit" =>
                 /\ pending = << >> /\ running = {}
                 /\ \A p \in Scenes : SlcReturned(p))
    /\ [][\A p \in Scenes :
            /\ (Submitted(pending', p) /\ ~Submitted(pending, p)) => ~SlcStarted(p)
            /\ (Submitted(pending, p) /\ ~Submitted(pending', p)) =>
                   (p \in running' \/ slc_result'[p] # "pending")
            /\ SlcStarted(p) => ~Submitted(pending', p)]_vars
    /\ <>(dpc = "exit")

\* the first product's download failed five times, and a product of a later batch
\* was downloaded all the same
C17_Witness ==
    /\ dpc = "exit"
    /\ dconf.batch_size = 1 /\ Len(products) = 3
    /\ slc_result[1] = "None" /\ slc_attempts[1] = 5
    /\ slc_result[2] = "path" /\ slc_result[3] = "path"
    /\ all_paths = <<2, 3>>

====
